---- MODULE Spec2Model ----
(***************************************************************************)
(* Button-driven confirmation workflow of the Pi-hole display controller.  *)
(*                                                                         *)
(* Callback contexts are threads: one per physical button (gpiozero) and   *)
(* one per threading.Timer.  No handler takes a lock, so a handler is a    *)
(* sequence of steps and the steps of different threads interleave.  A     *)
(* step is one statement on shared state; the two short timer helpers      *)
(* (_clear_confirmation_timer, and Timer(...) followed by start()) are one *)
(* step each.  Time is in whole seconds, kept as the time each started     *)
(* Timer still has to wait, and passes a quantum at a time.  A button's    *)
(* hold duration, the difference of two readings of time.time(), is an     *)
(* input chosen when the button is released.                               *)
(*                                                                         *)
(* main.py calls methods that no class under src/ defines (is_menu_active, *)
(* show_menu, is_waiting_for_confirmation, request_reboot and the like).   *)
(* They are modelled from the specification and delegate to the handlers   *)
(* of PiHole where those exist.  The handlers of PiHole and SystemOs are   *)
(* also entry points of their own, called from the button whose number     *)
(* they carry: Spec has the handlers of PiHole called directly, MainSpec   *)
(* the buttons as main.py wires them and the hold handler of SystemOs.     *)
(***************************************************************************)
EXTENDS Integers, Sequences, FiniteSets, TLC

\* ------------------------------------------------------------------ bounds
MaxArms == 2     \* arms of the update flow (one Timer object each)
MaxCalls == 3    \* callbacks the buttons deliver
MaxHold == 6     \* longest hold that is measured, in seconds
Quantum == 15    \* seconds that pass in one step of the clock

\* ------------------------------------------------------- program constants
CONFIRMATION_TIMEOUT == 30
GRAVITY_HOLD == 1
PIHOLE_HOLD == 2
REBOOT_HOLD == 2
SHUTDOWN_HOLD == 5
UPDATE_HIGH == 5

Buttons == 1..4
TimerIds == 5..(4 + MaxArms)
Threads == Buttons \cup TimerIds
Epochs == 1..MaxArms
HoldTimes == 0..MaxHold

NoTime == -1
NoLoc == [h |-> 0, kind |-> "none", ep |-> 0, prm |-> "none", re |-> FALSE]

VARIABLES
    waiting_for_confirmation,   \* PiHole._waiting_for_confirmation
    confirmation_timer,         \* PiHole._confirmation_timer (0 is None)
    tstate,                     \* each threading.Timer: unborn, pending, cancelled, running
    remaining,                  \* seconds a started Timer still waits
    hold_start,                 \* ButtonHandler._hold_start is set (not None)
    sys_waiting,                \* the system-control flow is AwaitingConfirmation
    pc, loc,                    \* per thread: position and locals
    view, prompt,               \* tmux window shown, prompt printed in control
    epoch,                      \* arms of the update flow so far
    calls,                      \* callbacks delivered so far
    owner,                      \* the arm that created each Timer
    acts, msgs, padds,          \* per arm: actions started, "Update cancelled"
                                \* messages, switch_to_padd calls of a cancel
    fired,                      \* the arm each Timer's callback cancelled (0: none)
    resolved,                   \* Timers a confirm press cancelled before their deadline
    ran,                        \* <<prompt shown, action run>> of each confirm
    cmds,                       \* <<command, handler kind>> of each system command run
    pressSeen,                  \* what the last press of each button invoked
    solo,                       \* the arm that began at rest and is still undisturbed
    now,                        \* time.time(), in whole seconds
    press_time,                 \* ButtonHandler._hold_start, the value (NoTime is None)
    hold_calls,                 \* per button: hold callbacks invoked, last duration passed
    edges,                      \* per button: the edges of its pin, as they happened
    returns,                    \* per arm: switch_to_padd calls that ended an update
    current_step,               \* DisplayBacklight.current_step
    ignored,                    \* confirm presses that found nothing awaiting
    mpc,                        \* where the main thread is
    cl_i,                       \* ButtonManager.cleanup: the device it closes next
    closed,                     \* the buttons whose gpiozero Button is closed
    led_closed,                 \* the backlight's PWMLED is closed
    last_end,                   \* the update that ended last: ok, or failed, told or untold
    stepped,                    \* calls of DisplayBacklight.step_brightness so far
    registered,                 \* the buttons in ButtonManager.buttons
    reg_failed,                 \* the buttons whose ButtonHandler could not be built
    padd                        \* what DisplayManager.check_padd returned

flowVars == <<waiting_for_confirmation, confirmation_timer>>
timerVars == <<tstate, remaining, owner>>
dispVars == <<view, prompt>>
countVars == <<acts, msgs, padds, fired, resolved, ran, cmds>>
cleanupVars == <<mpc, cl_i, closed, led_closed>>
startVars == <<registered, reg_failed, padd>>
lightVars == <<stepped>>
moreVars == <<last_end, startVars, lightVars>>
otherVars == <<returns, current_step, ignored, cleanupVars, moreVars>>
restVars == <<now, hold_calls, edges, otherVars>>
auxVars == <<press_time, restVars>>

vars == <<waiting_for_confirmation, confirmation_timer, tstate, remaining,
          hold_start, sys_waiting, pc, loc, view, prompt,
          epoch, calls, owner, acts, msgs, padds, fired, resolved, ran, cmds,
          pressSeen, solo, auxVars>>

\* ----------------------------------------------------------------- helpers
Base(t) == IF t \in TimerIds THEN "done" ELSE "idle"

Displayed == IF view = "control" THEN prompt ELSE "none"

Goto(t, label) == pc' = [pc EXCEPT ![t] = label]

\* the callback ends, by return or by an exception nobody catches
Finish(t) ==
    /\ pc' = [pc EXCEPT ![t] = Base(t)]
    /\ loc' = [loc EXCEPT ![t] = NoLoc]

Bump(f, e) == IF e \in DOMAIN f THEN [f EXCEPT ![e] = @ + 1] ELSE f

NextTimer ==
    CHOOSE T \in TimerIds :
        /\ tstate[T] = "unborn"
        /\ \A U \in TimerIds : tstate[U] = "unborn" => T <= U

Pending ==
    /\ waiting_for_confirmation
    /\ confirmation_timer # 0
    /\ tstate[confirmation_timer] = "pending"

\* nothing is going on apart from thread t
AtRest(t) ==
    /\ \A u \in Buttons \ {t} : pc[u] = "idle"
    /\ \A T \in TimerIds : tstate[T] # "pending" /\ (tstate[T] = "running" => pc[T] = "done")
    /\ ~waiting_for_confirmation
    /\ ~sys_waiting

\* -------------------------------------------------------------------- Init
InitButtons ==
    /\ now = 0
    /\ press_time = [b \in Buttons |-> NoTime]
    /\ hold_calls = [b \in Buttons |-> [n |-> 0, d |-> 0]]
    /\ edges = [b \in Buttons |-> [since |-> NoTime, pairs |-> 0, d |-> 0]]

InitFlow ==
    /\ waiting_for_confirmation = FALSE
    /\ confirmation_timer = 0
    /\ tstate = [T \in TimerIds |-> "unborn"]
    /\ remaining = [T \in TimerIds |-> 0]
    /\ hold_start = [b \in Buttons |-> FALSE]
    /\ sys_waiting = FALSE
    /\ pc = [t \in Threads |-> "idle"]
    /\ loc = [t \in Threads |-> NoLoc]
    /\ view = "padd"
    /\ prompt = "none"
    /\ epoch = 0
    /\ calls = 0
    /\ owner = [T \in TimerIds |-> 0]
    /\ acts = [e \in Epochs |-> 0]
    /\ msgs = [e \in Epochs |-> 0]
    /\ padds = [e \in Epochs |-> 0]
    /\ fired = [T \in TimerIds |-> 0]
    /\ resolved = {}
    /\ ran = {}
    /\ cmds = {}
    /\ pressSeen = [b \in Buttons |-> "never"]
    /\ solo = 0
    /\ InitButtons
    /\ returns = [e \in Epochs |-> 0]
    /\ current_step = 0
    /\ ignored = 0
    /\ last_end = "none"
    /\ stepped = 0

\* main has registered its four buttons and waits in signal.pause()
InitMain ==
    /\ mpc = "pause"
    /\ cl_i = 0
    /\ closed = {}
    /\ led_closed = FALSE
    /\ registered = Buttons
    /\ reg_failed = {}
    /\ padd = "found"

Init == InitFlow /\ InitMain

\* ------------------------------------------------ PiHole: arming a prompt
Threshold(kind) == IF kind = "gravity" THEN GRAVITY_HOLD ELSE PIHOLE_HOLD

\* arms that callbacks already delivered may still begin
ArmsInFlight ==
    Cardinality({u \in Buttons : pc[u] = "held" /\ loc[u].kind \in {"gravity", "pihole"}})

\* a callback is delivered to the idle thread of button b
Deliver(b) ==
    /\ b \in registered \ closed
    /\ pc[b] = "idle"
    /\ calls < MaxCalls
    /\ calls' = calls + 1

\* PiHole.handle_button2_held(hold_time), entered on button 2's thread
handle_button2_held(h) ==
    /\ Deliver(2)
    /\ epoch + ArmsInFlight < MaxArms
    /\ pc' = [pc EXCEPT ![2] = "held"]
    /\ loc' = [loc EXCEPT ![2] = [NoLoc EXCEPT !.h = h, !.kind = "gravity"]]
    /\ solo' = 0
    /\ UNCHANGED <<flowVars, timerVars, hold_start, auxVars, sys_waiting, dispVars, epoch,
                   countVars, pressSeen>>

\* PiHole.handle_button3_held(hold_time), entered on button 3's thread
handle_button3_held(h) ==
    /\ Deliver(3)
    /\ epoch + ArmsInFlight < MaxArms
    /\ pc' = [pc EXCEPT ![3] = "held"]
    /\ loc' = [loc EXCEPT ![3] = [NoLoc EXCEPT !.h = h, !.kind = "pihole"]]
    /\ solo' = 0
    /\ UNCHANGED <<flowVars, timerVars, hold_start, auxVars, sys_waiting, dispVars, epoch,
                   countVars, pressSeen>>

\* if hold_time >= 1.0 (2.0): self._waiting_for_confirmation = True
held_if(t) ==
    /\ pc[t] = "held"
    /\ loc[t].kind \in {"gravity", "pihole"}
    /\ IF loc[t].h >= Threshold(loc[t].kind)
       THEN /\ waiting_for_confirmation' = TRUE
            /\ epoch' = epoch + 1
            /\ pc' = [pc EXCEPT ![t] = "a_timer"]
            /\ loc' = [loc EXCEPT ![t] = [@ EXCEPT !.h = 0, !.ep = epoch + 1, !.re = Pending]]
            /\ solo' = IF AtRest(t) THEN epoch + 1 ELSE 0
       ELSE /\ Finish(t)
            /\ UNCHANGED <<waiting_for_confirmation, epoch, solo>>
    /\ UNCHANGED <<confirmation_timer, timerVars, hold_start, auxVars, sys_waiting, dispVars,
                   calls, countVars, pressSeen>>

\* a cancel() that does not stop the Timer
TimerCancelNoEffect(ts, T) == ts

\* Timer.cancel(): a Timer that has not begun its callback never will
TimerCancel(ts, T) ==
    IF T # 0 /\ ts[T] = "pending" THEN [ts EXCEPT ![T] = "cancelled"] ELSE ts

ClearedRemaining ==
    IF confirmation_timer # 0 THEN [remaining EXCEPT ![confirmation_timer] = 0] ELSE remaining

\* PiHole._clear_confirmation_timer (a cancelled Timer waits no longer)
clear_confirmation_timer ==
    /\ tstate' = TimerCancel(tstate, confirmation_timer)
    /\ remaining' = ClearedRemaining
    /\ confirmation_timer' = 0

\* PiHole._start_confirmation_timer: the old Timer is cleared, a new one
\* is created and started
start_confirmation_timer(t) ==
    /\ pc[t] = "a_timer"
    /\ \E T \in TimerIds : tstate[T] = "unborn"
    /\ confirmation_timer' = NextTimer
    /\ tstate' = [TimerCancel(tstate, confirmation_timer) EXCEPT ![NextTimer] = "pending"]
    /\ remaining' = [ClearedRemaining EXCEPT ![NextTimer] = CONFIRMATION_TIMEOUT]
    /\ owner' = [owner EXCEPT ![NextTimer] = loc[t].ep]
    /\ Goto(t, "a_show")
    /\ UNCHANGED <<waiting_for_confirmation, hold_start, auxVars, sys_waiting, loc, dispVars,
                   epoch, calls, countVars, pressSeen, solo>>

\* DisplayManager.show_gravity_update / show_pihole_update: the control
\* window is selected and cleared and the prompt printed (True); or the
\* switch or the clear raises, or the update check of show_pihole_update
\* fails (False)
show_update(t) ==
    /\ pc[t] = "a_show"
    /\ \/ /\ view' = "control"
          /\ prompt' = loc[t].kind
          /\ Finish(t)
          /\ solo' = solo
       \/ /\ view' \in {view, "control"}
          /\ prompt' = prompt
          /\ Goto(t, "c_if")
          /\ loc' = loc
          /\ solo' = 0
       \/ /\ loc[t].kind = "pihole"
          /\ view' = "control"
          /\ prompt' = "failed"
          /\ Goto(t, "c_if")
          /\ loc' = loc
          /\ solo' = 0
    /\ UNCHANGED <<flowVars, timerVars, hold_start, auxVars, sys_waiting, epoch, calls,
                   countVars, pressSeen>>

\* ------------------------------------------------- PiHole: cancel_update
\* a cancel_update that does not test the flag
cancel_update_unguarded(t) ==
    /\ pc[t] = "c_if"
    /\ msgs' = Bump(msgs, epoch)
    /\ fired' = IF t \in TimerIds THEN [fired EXCEPT ![t] = epoch] ELSE fired
    /\ pc' = [pc EXCEPT ![t] = "c_clear"]
    /\ loc' = [loc EXCEPT ![t] = [@ EXCEPT !.ep = epoch]]
    /\ UNCHANGED <<flowVars, timerVars, hold_start, auxVars, sys_waiting, dispVars, epoch, calls,
                   acts, padds, resolved, ran, cmds, pressSeen, solo>>

\* if self._waiting_for_confirmation: print("\nUpdate cancelled")
cancel_update(t) ==
    /\ pc[t] = "c_if"
    /\ IF waiting_for_confirmation
       THEN /\ msgs' = Bump(msgs, epoch)
            /\ fired' = IF t \in TimerIds THEN [fired EXCEPT ![t] = epoch] ELSE fired
            /\ pc' = [pc EXCEPT ![t] = "c_clear"]
            /\ loc' = [loc EXCEPT ![t] = [@ EXCEPT !.ep = epoch]]
       ELSE /\ Finish(t)
            /\ UNCHANGED <<msgs, fired>>
    /\ UNCHANGED <<flowVars, timerVars, hold_start, auxVars, sys_waiting, dispVars, epoch, calls,
                   acts, padds, resolved, ran, cmds, pressSeen, solo>>

\* a _clear_confirmation_state that forgets to reset the flag
clear_confirmation_state_keeps_flag ==
    /\ clear_confirmation_timer
    /\ waiting_for_confirmation' = waiting_for_confirmation

\* PiHole._clear_confirmation_state
clear_confirmation_state ==
    /\ clear_confirmation_timer
    /\ waiting_for_confirmation' = FALSE

\* cancel_update: self._clear_confirmation_state()
cancel_update_clear(t) ==
    /\ pc[t] = "c_clear"
    /\ clear_confirmation_state
    /\ Goto(t, "c_padd")
    /\ UNCHANGED <<owner, hold_start, auxVars, sys_waiting, loc, dispVars, epoch, calls, countVars,
                   pressSeen, solo>>

\* DisplayManager.switch_to_padd: the window is selected, or DisplayError
switch_to_padd ==
    \/ view' = "padd"
    \/ view' = view

\* cancel_update: time.sleep(FEEDBACK_DELAY); self.display.switch_to_padd()
cancel_update_padd(t) ==
    /\ pc[t] = "c_padd"
    /\ padds' = Bump(padds, loc[t].ep)
    /\ switch_to_padd
    /\ Finish(t)
    /\ UNCHANGED <<flowVars, timerVars, hold_start, auxVars, sys_waiting, prompt, epoch, calls,
                   acts, msgs, fired, resolved, ran, cmds, pressSeen, solo>>

\* ------------------------------------------------ PiHole: confirm presses
\* PiHole.handle_button2_press(), entered on button 2's thread
handle_button2_press ==
    /\ Deliver(2)
    /\ pc' = [pc EXCEPT ![2] = "p_if"]
    /\ loc' = [loc EXCEPT ![2] = [NoLoc EXCEPT !.kind = "gravity"]]
    /\ solo' = 0
    /\ UNCHANGED <<flowVars, timerVars, hold_start, auxVars, sys_waiting, dispVars, epoch,
                   countVars, pressSeen>>

\* PiHole.handle_button3_press(), entered on button 3's thread
handle_button3_press ==
    /\ Deliver(3)
    /\ pc' = [pc EXCEPT ![3] = "p_if"]
    /\ loc' = [loc EXCEPT ![3] = [NoLoc EXCEPT !.kind = "pihole"]]
    /\ solo' = 0
    /\ UNCHANGED <<flowVars, timerVars, hold_start, auxVars, sys_waiting, dispVars, epoch,
                   countVars, pressSeen>>

\* a press handler that does not test the flag
press_if_unguarded(t) ==
    /\ pc[t] = "p_if"
    /\ pc' = [pc EXCEPT ![t] = "p_clear"]
    /\ loc' = [loc EXCEPT ![t] = [@ EXCEPT !.ep = epoch, !.prm = Displayed]]
    /\ ignored' = ignored
    /\ UNCHANGED <<flowVars, timerVars, hold_start, press_time, now, hold_calls, edges,
                   cleanupVars, moreVars, returns, current_step, sys_waiting, dispVars, epoch,
                   calls, countVars, pressSeen, solo>>

\* handle_button*_press: if self._waiting_for_confirmation:
press_if(t) ==
    /\ pc[t] = "p_if"
    /\ IF waiting_for_confirmation
       THEN /\ pc' = [pc EXCEPT ![t] = "p_clear"]
            /\ loc' = [loc EXCEPT ![t] = [@ EXCEPT !.ep = epoch, !.prm = Displayed]]
            /\ ignored' = ignored
       ELSE /\ Finish(t)
            /\ ignored' = ignored + 1
    /\ UNCHANGED <<flowVars, timerVars, hold_start, press_time, now, hold_calls, edges,
                   cleanupVars, moreVars, returns, current_step, sys_waiting, dispVars, epoch,
                   calls, countVars, pressSeen, solo>>

\* handle_button*_press: self._clear_confirmation_state(), and the update
\* (update_gravity / update_pihole) begins
press_clear(t) ==
    /\ pc[t] = "p_clear"
    /\ clear_confirmation_state
    /\ resolved' = IF Pending /\ remaining[confirmation_timer] > 0
                   THEN resolved \cup {confirmation_timer}
                   ELSE resolved
    /\ acts' = Bump(acts, loc[t].ep)
    /\ ran' = ran \cup {<<loc[t].prm, loc[t].kind>>}
    /\ Goto(t, "p_end")
    /\ UNCHANGED <<owner, hold_start, auxVars, sys_waiting, loc, dispVars, epoch, calls, msgs,
                   padds, fired, cmds, pressSeen, solo>>

\* how an update command can end: exit status 0, another exit status,
\* subprocess.SubprocessError, or another exception of Popen (OSError)
Outcomes == {"ok", "nonzero", "subprocess_error", "os_error"}

\* whether the update prints a line about its outcome: update_gravity does
\* unless an exception passes its except clause; update_pihole only logs
prints_message(kind, outcome) == kind # "pihole" /\ outcome # "os_error"

\* the update ends: update_gravity's finally clause switches to PADD (which
\* may raise); update_pihole returns, or raises ServiceError, with no switch
update_end(t) ==
    /\ pc[t] = "p_end"
    /\ \E o \in Outcomes :
          last_end' = IF o = "ok" THEN "ok"
                      ELSE IF prints_message(loc[t].kind, o) THEN "told" ELSE "untold"
    /\ IF loc[t].kind = "pihole"
       THEN UNCHANGED <<view, returns>>
       ELSE /\ switch_to_padd
            /\ returns' = Bump(returns, loc[t].ep)
    /\ Finish(t)
    /\ UNCHANGED <<flowVars, timerVars, hold_start, press_time, now, hold_calls, edges,
                   cleanupVars, startVars, lightVars, current_step,
                   ignored, sys_waiting, prompt,
                   epoch, calls, countVars, pressSeen, solo>>

\* ---------------------------------------------------------- Timer, clock
\* a Timer whose callback returns without calling cancel_update
handle_timeout_silent(T) ==
    /\ tstate[T] = "pending"
    /\ remaining[T] = 0
    /\ tstate' = [tstate EXCEPT ![T] = "running"]
    /\ pc' = [pc EXCEPT ![T] = "done"]
    /\ UNCHANGED <<flowVars, remaining, owner, hold_start, auxVars, sys_waiting, loc, dispVars,
                   epoch, calls, countVars, pressSeen, solo>>

\* the Timer's thread wakes at its deadline and calls PiHole._handle_timeout
handle_timeout(T) ==
    /\ tstate[T] = "pending"
    /\ remaining[T] = 0
    /\ tstate' = [tstate EXCEPT ![T] = "running"]
    /\ pc' = [pc EXCEPT ![T] = "c_if"]
    /\ UNCHANGED <<flowVars, remaining, owner, hold_start, auxVars, sys_waiting, loc, dispVars,
                   epoch, calls, countVars, pressSeen, solo>>

Due == \E T \in TimerIds : tstate[T] = "pending" /\ remaining[T] = 0

\* time passes; a Timer that is due wakes before any more of it does
Tick ==
    /\ ~Due
    /\ \E T \in TimerIds : tstate[T] = "pending"
    /\ remaining' = [T \in TimerIds |->
                        IF tstate[T] = "pending"
                        THEN (IF remaining[T] > Quantum THEN remaining[T] - Quantum ELSE 0)
                        ELSE remaining[T]]
    /\ UNCHANGED <<flowVars, tstate, owner, hold_start, auxVars, sys_waiting, pc, loc, dispVars,
                   epoch, calls, countVars, pressSeen, solo>>

\* ------------------------------------------- ButtonHandler and main.py
\* main.py buttons_config: the callbacks each button is registered with
buttons_config(b) == [callback |-> TRUE, hold_callback |-> b \in {1, 2}]

\* ButtonHandler._setup_callbacks: what gpiozero is told to call
setup_callbacks(press_callback, hold_callback) ==
    LET first == IF press_callback /\ ~hold_callback THEN "press_callback" ELSE "none"
    IN  [when_pressed |-> IF hold_callback THEN "_on_press" ELSE first,
         when_released |-> IF hold_callback THEN "_on_release" ELSE "none"]

Wired(b) == setup_callbacks(buttons_config(b).callback, buttons_config(b).hold_callback)

\* the menu guard of main.py
is_menu_active == waiting_for_confirmation \/ sys_waiting

\* PiHole.show_menu(hold_time): the handler the hold policy selects
show_menu_kind(h) == IF h >= UPDATE_HIGH THEN "pihole" ELSE "gravity"

\* _on_release forgets the press it measured from (the mutant forgets nothing)
keep_hold_start(b) == press_time

reset_hold_start(b) == [press_time EXCEPT ![b] = NoTime]


\* a button with a hold callback goes down: ButtonHandler._on_press
on_press(b) ==
    /\ Wired(b).when_pressed = "_on_press"
    /\ b \in registered \ closed
    /\ pc[b] = "idle"
    /\ ~hold_start[b]
    /\ hold_start' = [hold_start EXCEPT ![b] = TRUE]
    /\ press_time' = [press_time EXCEPT ![b] = now]
    /\ pressSeen' = [pressSeen EXCEPT ![b] = "nocb"]
    /\ solo' = 0
    /\ UNCHANGED <<flowVars, timerVars, restVars, sys_waiting, pc, loc, dispVars, epoch, calls,
                   countVars>>

\* it comes up: ButtonHandler._on_release calls button1_held / button2_held
\* with the measured duration h, which passes the menu guard or returns
on_release(b, h) ==
    /\ Wired(b).when_released = "_on_release"
    /\ Deliver(b)
    /\ hold_start[b]
    /\ epoch + ArmsInFlight < MaxArms
    /\ hold_start' = [hold_start EXCEPT ![b] = FALSE]
    /\ press_time' = reset_hold_start(b)
    /\ IF is_menu_active
       THEN UNCHANGED <<pc, loc>>
       ELSE /\ pc' = [pc EXCEPT ![b] = IF b = 1 THEN "held" ELSE "s_menu"]
            /\ loc' = [loc EXCEPT ![b] =
                         [NoLoc EXCEPT !.h = h,
                                       !.kind = IF b = 1 THEN show_menu_kind(h) ELSE "system"]]
    /\ solo' = 0
    /\ UNCHANGED <<flowVars, timerVars, restVars, sys_waiting, dispVars, epoch, countVars,
                   pressSeen>>

\* a press-only button goes down: button3_pressed / button4_pressed
button_pressed(b) ==
    /\ Wired(b).when_pressed = "press_callback"
    /\ Deliver(b)
    /\ pressSeen' = [pressSeen EXCEPT ![b] = "cb"]
    /\ IF sys_waiting
       THEN /\ pc' = [pc EXCEPT ![b] = "s_req"]
            /\ loc' = [loc EXCEPT ![b] =
                         [NoLoc EXCEPT !.kind = IF b = 3 THEN "reboot" ELSE "shutdown"]]
       ELSE IF waiting_for_confirmation
            THEN /\ pc' = [pc EXCEPT ![b] = "p_if"]
                 /\ loc' = [loc EXCEPT ![b] =
                              [NoLoc EXCEPT !.kind = IF b = 3 THEN "pihole" ELSE "padd"]]
            ELSE UNCHANGED <<pc, loc>>
    /\ solo' = 0
    /\ UNCHANGED <<flowVars, timerVars, hold_start, auxVars, sys_waiting, dispVars, epoch,
                   countVars>>

\* -------------------------------------------------------------- SystemOs
\* SystemOs.show_menu(hold_time): arm the system-control flow
system_show_menu(t) ==
    /\ pc[t] = "s_menu"
    /\ sys_waiting' = (sys_waiting \/ loc[t].h >= REBOOT_HOLD)
    /\ Finish(t)
    /\ UNCHANGED <<flowVars, timerVars, hold_start, auxVars, dispVars, epoch, calls, countVars,
                   pressSeen, solo>>

\* SystemOs.request_reboot / request_shutdown: resolve, then run the command
system_request(t) ==
    /\ pc[t] = "s_req"
    /\ sys_waiting' = FALSE
    /\ cmds' = IF sys_waiting THEN cmds \cup {<<loc[t].kind, "press">>} ELSE cmds
    /\ Finish(t)
    /\ UNCHANGED <<flowVars, timerVars, hold_start, auxVars, dispVars, epoch, calls, acts, msgs,
                   padds, fired, resolved, ran, pressSeen, solo>>

\* the system-control flow's timer expires (its deadline is not tracked)
system_timeout ==
    /\ sys_waiting
    /\ sys_waiting' = FALSE
    /\ UNCHANGED <<flowVars, timerVars, hold_start, auxVars, pc, loc, dispVars, epoch, calls,
                   countVars, pressSeen, solo>>

\* SystemOs.handle_button4_held(hold_time), entered on button 4's thread
handle_button4_held(h) ==
    /\ Deliver(4)
    /\ pc' = [pc EXCEPT ![4] = "held"]
    /\ loc' = [loc EXCEPT ![4] = [NoLoc EXCEPT !.h = h, !.kind = "system"]]
    /\ solo' = 0
    /\ UNCHANGED <<flowVars, timerVars, hold_start, auxVars, sys_waiting, dispVars, epoch,
                   countVars, pressSeen>>

\* handle_button4_held: < 2.0 returns, >= 5.0 shutdown_system(), else reboot_system()
button4_held_if(t) ==
    /\ pc[t] = "held"
    /\ loc[t].kind = "system"
    /\ cmds' = IF loc[t].h < REBOOT_HOLD THEN cmds
               ELSE IF loc[t].h >= SHUTDOWN_HOLD THEN cmds \cup {<<"shutdown", "hold">>}
               ELSE cmds \cup {<<"reboot", "hold">>}
    /\ Finish(t)
    /\ UNCHANGED <<flowVars, timerVars, hold_start, auxVars, sys_waiting, dispVars, epoch, calls,
                   acts, msgs, padds, fired, resolved, ran, pressSeen, solo>>

\* -------------------------------------------------------------------- Next
\* the steps inside PiHole, and the clock
Steps ==
    \/ \E t \in Buttons : held_if(t)
    \/ \E t \in Buttons : start_confirmation_timer(t)
    \/ \E t \in Buttons : show_update(t)
    \/ \E t \in Threads : cancel_update(t)
    \/ \E t \in Threads : cancel_update_clear(t)
    \/ \E t \in Threads : cancel_update_padd(t)
    \/ \E t \in Buttons : press_if(t)
    \/ \E t \in Buttons : press_clear(t)
    \/ \E t \in Buttons : update_end(t)
    \/ \E T \in TimerIds : handle_timeout(T)
    \/ Tick

\* the handlers of PiHole called from their buttons
Next ==
    \/ \E h \in HoldTimes : handle_button2_held(h)
    \/ \E h \in HoldTimes : handle_button3_held(h)
    \/ handle_button2_press
    \/ handle_button3_press
    \/ Steps

Spec == Init /\ [][Next]_vars

\* the buttons as main.py registers them, and the hold handler of SystemOs
MainNext ==
    \/ \E h \in HoldTimes : handle_button4_held(h)
    \/ \E t \in Buttons : button4_held_if(t)
    \/ \E b \in Buttons : on_press(b)
    \/ \E b \in Buttons, h \in HoldTimes : on_release(b, h)
    \/ \E b \in Buttons : button_pressed(b)
    \/ \E t \in Buttons : system_show_menu(t)
    \/ \E t \in Buttons : system_request(t)
    \/ system_timeout
    \/ Steps

MainSpec == Init /\ [][MainNext]_vars

\* threads run and due Timers wake: every enabled step is eventually taken
FairSpec == Spec /\ WF_vars(Steps)

\* ================================================================== claims

\* C1: in every reachable state at most one confirmation flow, the Pi-hole
\* update flow or the system-control flow, is AwaitingConfirmation.
C1_AtMostOneFlowAwaiting == ~(waiting_for_confirmation /\ sys_waiting)

\* C2: no update, reboot or shutdown command is executed directly by a
\* hold release; every command that runs was started by a confirm press.
C2_NoCommandFromHold == \A c \in cmds : c[2] = "press"

\* C3: when the Timer callback and a confirm press race on one arm, not both
\* take effect: no arm has both an action started and a timeout cancellation.
C3_TimeoutOrActionNotBoth ==
    \A e \in Epochs : ~(acts[e] >= 1 /\ \E T \in TimerIds : fired[T] = e)

\* C4: for each arm of the flow at most one action is started.
C4_OneActionPerArm == \A e \in Epochs : acts[e] <= 1

\* what an arm that no press and no other callback disturbs looks like: its
\* Timer is never cancelled before it fires, no action runs, nothing is
\* announced before the deadline, and once the Timer's callback has returned
\* the flow is Idle with exactly one "Update cancelled" message and exactly
\* one switch to the default view
C5_Safe ==
    \A e \in Epochs : solo = e =>
        /\ acts[e] = 0
        /\ msgs[e] <= 1
        /\ padds[e] <= msgs[e]
        /\ \A T \in TimerIds : owner[T] = e =>
              /\ tstate[T] \in {"pending", "running"}
              /\ tstate[T] = "pending" => waiting_for_confirmation /\ msgs[e] = 0
              /\ pc[T] = "done" =>
                    /\ ~waiting_for_confirmation
                    /\ confirmation_timer = 0
                    /\ fired[T] = e
                    /\ msgs[e] = 1
                    /\ padds[e] = 1

\* C5: if a flow is armed and no press arrives before CONFIRMATION_TIMEOUT
\* elapses, the Timer fires, the flow becomes Idle and exactly one
\* cancellation notification (message, then the switch to the default view)
\* is produced for that arm.
C5_TimeoutCancelsOnce ==
    /\ []C5_Safe
    /\ \A e \in Epochs :
          (solo = e) ~> (solo # e \/ \E T \in TimerIds : owner[T] = e /\ pc[T] = "done")

\* the Timer of an undisturbed arm has fired and its callback has returned
C5_Witness ==
    \E e \in Epochs, T \in TimerIds :
        solo = e /\ owner[T] = e /\ pc[T] = "done" /\ msgs[e] = 1

\* C6: the Timer of an arm that a confirm press resolved strictly before its
\* deadline never runs its callback: it stays cancelled and cancels nothing.
C6_ResolvedTimerSilent ==
    \A T \in resolved : tstate[T] = "cancelled" /\ fired[T] = 0 /\ pc[T] = "idle"

\* a resolved arm's Timer is still silent when a later arm's Timer, started
\* after the resolve, has reached its own deadline
C6_Witness ==
    \E T \in resolved, U \in TimerIds : U > T /\ tstate[U] = "running"

\* C7: an arm request that arrives while a confirmation is pending is a
\* no-op: no step of its handler changes the waiting flag, the Timer, its
\* deadline, or what is displayed.
C7_RearmIsNoOp ==
    [][\A t \in Buttons :
          (loc[t].re /\ pc'[t] # pc[t]) =>
              UNCHANGED <<waiting_for_confirmation, confirmation_timer, tstate,
                          remaining, view, prompt>>]_vars

\* C8: an action that runs on a press made while a prompt was displayed is
\* the action that prompt offers.
C8_OnlyThePromptedAction ==
    \A r \in ran : r[1] \in {"gravity", "pihole"} => r[2] = r[1]

\* the hold policy: nothing below low, the lesser action in [low, high), the
\* greater action from high on
HoldPolicy(low, high, lesser, greater, d) ==
    IF d < low THEN "none" ELSE IF d < high THEN lesser ELSE greater

\* C9: what a hold handler selects for a duration d is what the hold policy
\* gives, for the update holds and for the system-control hold.
C9_HoldPolicy ==
    [][\A t \in Buttons :
          (pc[t] = "held" /\ pc'[t] # "held") =>
              IF loc[t].kind = "system"
              THEN LET sel == HoldPolicy(REBOOT_HOLD, SHUTDOWN_HOLD, "reboot", "shutdown",
                                         loc[t].h)
                   IN  cmds' = IF sel = "none" THEN cmds ELSE cmds \cup {<<sel, "hold">>}
              ELSE (IF pc'[t] = "a_timer" THEN loc[t].kind ELSE "none")
                     = HoldPolicy(GRAVITY_HOLD, UPDATE_HIGH, "gravity", "pihole",
                                  loc[t].h)]_vars

\* C10: a press of a button registered with a press callback invokes that
\* callback.
C10_PressCallbackInvoked ==
    \A b \in Buttons : buttons_config(b).callback => pressSeen[b] # "nocb"

\* ------------------------------------------------- ButtonHandler, on a clock
MaxClock == 3
MaxPairs == 2

\* the buttons whose ButtonHandler measures holds
HoldButtons == {b \in Buttons : Wired(b).when_released = "_on_release"}

\* hold_duration = time.time() - self._hold_start
hold_duration(b) == now - press_time[b]

\* the pin reports a press edge: _on_press stores the time
press_edge(b) ==
    /\ b \in HoldButtons
    /\ press_time' = [press_time EXCEPT ![b] = now]
    /\ hold_start' = [hold_start EXCEPT ![b] = TRUE]
    /\ edges' = [edges EXCEPT ![b].since = now]
    /\ UNCHANGED <<flowVars, timerVars, sys_waiting, pc, loc, dispVars, epoch, calls,
                   countVars, pressSeen, solo, now, hold_calls, otherVars>>

\* the pin reports a release edge, whether or not a press edge came before
\* it: _on_release measures, forgets the press and calls the hold callback
release_edge(b) ==
    /\ b \in HoldButtons
    /\ hold_calls[b].n < MaxPairs
    /\ IF press_time[b] # NoTime
       THEN /\ hold_calls' = [hold_calls EXCEPT ![b] = [n |-> @.n + 1, d |-> hold_duration(b)]]
            /\ press_time' = reset_hold_start(b)
            /\ hold_start' = [hold_start EXCEPT ![b] = FALSE]
       ELSE UNCHANGED <<hold_calls, press_time, hold_start>>
    /\ edges' = [edges EXCEPT ![b] =
                   IF @.since # NoTime
                   THEN [since |-> NoTime, pairs |-> @.pairs + 1, d |-> now - @.since]
                   ELSE @]
    /\ UNCHANGED <<flowVars, timerVars, sys_waiting, pc, loc, dispVars, epoch, calls,
                   countVars, pressSeen, solo, now, otherVars>>

\* a second passes
Advance ==
    /\ now < MaxClock
    /\ now' = now + 1
    /\ UNCHANGED <<flowVars, timerVars, hold_start, sys_waiting, pc, loc, dispVars, epoch,
                   calls, countVars, pressSeen, solo, press_time, hold_calls, edges,
                   otherVars>>

ButtonNext ==
    \/ \E b \in Buttons : press_edge(b)
    \/ \E b \in Buttons : release_edge(b)
    \/ Advance

ButtonSpec == Init /\ [][ButtonNext]_vars

\* C11: the hold callback of a button has been invoked once for each pair of
\* a press edge and the release edge after it, the last time with the
\* release time minus the time of the latest press edge before it, and a
\* release edge with no press edge recorded since the one before invokes
\* nothing and leaves no press recorded.
C11_HoldOncePerPair ==
    \A b \in HoldButtons :
        /\ hold_calls[b].n = edges[b].pairs
        /\ hold_calls[b].d = edges[b].d
        /\ press_time[b] = edges[b].since

\* two pairs on one button, the second held for two seconds after a press
\* that was repeated, and the other button released with no press recorded
C11_Witness ==
    /\ hold_calls[1] = [n |-> 2, d |-> 2]
    /\ edges[1].pairs = 2
    /\ now = MaxClock
    /\ press_time[2] = NoTime
    /\ hold_calls[2].n = 0

\* ------------------------------------------------------- the update flow
\* the handlers that arm: their threads alone reach cancel_update by a
\* prompt that failed
ArmThreads == {t \in Buttons : loc[t].kind \in {"gravity", "pihole"}}

\* C12: when the prompt of an arm failed and no later arm began, the arm
\* handler returns with the flow Idle and no Timer pending.
C12_FailedPromptCancels ==
    [][\A t \in Buttons :
          (/\ t \in ArmThreads
           /\ pc[t] \in {"c_if", "c_padd"}
           /\ pc'[t] = "idle"
           /\ epoch = loc[t].ep)
          => /\ ~waiting_for_confirmation'
             /\ \A T \in TimerIds : tstate'[T] # "pending"]_vars

\* C13: the update a confirm press began ends with one call of
\* switch_to_padd, for the gravity update and the Pi-hole update alike, and
\* however its command ended.
C13_ReturnsToPadd ==
    [][\A t \in Threads :
          (pc[t] = "p_end" /\ pc'[t] = "idle")
          => returns'[loc[t].ep] = returns[loc[t].ep] + 1]_vars

\* C14: cancel_update called while the flow is Idle returns at once: it
\* prints no message, asks for no view switch, touches no Timer and leaves
\* the flow Idle.
C14_CancelWhenIdleIsNoOp ==
    [][\A t \in Threads :
          (pc[t] = "c_if" /\ ~waiting_for_confirmation /\ pc'[t] # "c_if")
          => /\ pc'[t] = Base(t)
             /\ UNCHANGED <<flowVars, timerVars, dispVars, msgs, padds, fired>>]_vars

\* a Timer's callback called cancel_update after a press had cleared the
\* flow, and cancelled nothing
C14_Witness ==
    \E T \in TimerIds :
        /\ tstate[T] = "running"
        /\ pc[T] = "done"
        /\ fired[T] = 0
        /\ msgs[owner[T]] = 0

\* ------------------------------------------------- the cancel press
LEVELS == 11
MaxSteps == 12

\* a step that stops at the last level instead of wrapping
step_brightness_nowrap ==
    IF current_step + 1 < LEVELS THEN current_step + 1 ELSE current_step

\* DisplayBacklight.step_brightness: the next of the brightness levels
step_brightness == (current_step + 1) % LEVELS

\* DisplayBacklight.brightness_levels, in percent
brightness_levels == <<100, 90, 80, 70, 60, 50, 40, 30, 20, 10, 0>>

\* DisplayBacklight.get_brightness_percentage
get_brightness_percentage == brightness_levels[current_step + 1]

\* ButtonManager.cancel_confirmation: whichever flow awaits is cancelled,
\* the update flow by PiHole.cancel_update on the calling thread
cancel_confirmation(t) ==
    /\ pc' = [pc EXCEPT ![t] = "c_if"]
    /\ loc' = [loc EXCEPT ![t] = [NoLoc EXCEPT !.kind = "cancel"]]
    /\ sys_waiting' = FALSE

\* button1_pressed of main.py, entered on button 1's thread: a menu that is
\* active is cancelled, and otherwise the brightness steps
button1_pressed ==
    /\ 1 \in registered \ closed
    /\ pc[1] = "idle"
    /\ IF is_menu_active
       THEN /\ calls < MaxCalls
            /\ calls' = calls + 1
            /\ cancel_confirmation(1)
            /\ UNCHANGED <<current_step, stepped>>
       ELSE /\ stepped < MaxSteps
            /\ stepped' = stepped + 1
            /\ current_step' = step_brightness
            /\ UNCHANGED <<calls, pc, loc, sys_waiting>>
    /\ solo' = 0
    /\ UNCHANGED <<flowVars, timerVars, hold_start, press_time, now, hold_calls, edges,
                   cleanupVars, last_end, startVars, returns, ignored, dispVars, epoch,
                   countVars, pressSeen>>

CancelNext ==
    \/ \E h \in HoldTimes : handle_button2_held(h)
    \/ handle_button2_press
    \/ button1_pressed
    \/ Steps

CancelSpec == Init /\ [][CancelNext]_vars

\* C15: when the one arm there was showed its prompt, and the callback of
\* its Timer and the cancel presses have all returned, the flow is Idle and
\* one "Update cancelled" message and one switch back to PADD were produced.
C15_OneCancellation ==
    \A T \in TimerIds :
        (/\ epoch = 1
         /\ prompt = "gravity"
         /\ fired[T] = 1
         /\ pc[T] = "done"
         /\ \A b \in Buttons : pc[b] = "idle")
        => /\ msgs[1] = 1
           /\ padds[1] = 1
           /\ ~waiting_for_confirmation

\* C16: while the flow is Idle no Timer an earlier arm created is pending.
C16_IdleHasNoPendingTimer ==
    ~waiting_for_confirmation => \A T \in TimerIds : tstate[T] # "pending"

C18_PressWhenIdleIsNoOp ==
    [][\A t \in Buttons :
          (pc[t] = "p_if" /\ ~waiting_for_confirmation /\ pc'[t] # "p_if")
          => /\ pc'[t] = "idle"
             /\ UNCHANGED <<flowVars, timerVars, dispVars, acts, ran, resolved, returns,
                            cmds, msgs, padds>>]_vars

\* a press confirmed the one arm and a second press found the flow Idle
C18_Witness ==
    /\ ignored = 1
    /\ epoch = 1
    /\ acts[1] = 1
    /\ \A b \in Buttons : pc[b] = "idle"

\* no thread is inside a handler or a Timer callback
Quiet ==
    /\ \A b \in Buttons : pc[b] = "idle"
    /\ \A T \in TimerIds : pc[T] \in {"idle", "done"}

\* an awaiting flow that no handler is working on has its Timer pending
C19_Safe == (waiting_for_confirmation /\ Quiet) => Pending

\* C19: a flow that is AwaitingConfirmation is Idle again later, given only
\* that handlers under way and started Timers keep running, and whatever
\* button events came before: while no handler is working on it, an
\* awaiting flow has a pending Timer.
C19_AwaitingEndsIdle ==
    /\ []C19_Safe
    /\ waiting_for_confirmation ~> ~waiting_for_confirmation

\* the last arm the bounds allow was awaiting, with no press to resolve it,
\* and the callback of its Timer has brought the flow back to Idle
C19_Witness ==
    /\ epoch = MaxArms
    /\ ~waiting_for_confirmation
    /\ acts[MaxArms] = 0
    /\ \E T \in TimerIds : owner[T] = MaxArms /\ fired[T] = MaxArms /\ pc[T] = "done"

\* ------------------------------------------------------------- cleanup
\* ButtonManager.cleanup closes the buttons in the order they were added,
\* then the backlight, then clears the update flow
CL_BACKLIGHT == 5
CL_PIHOLE == 6

\* for button in self.buttons: the first, and the one after b
FirstDevice == IF 1 \in registered THEN 1 ELSE CL_BACKLIGHT
NextDevice(b) == IF b + 1 \in registered THEN b + 1 ELSE CL_BACKLIGHT

\* manager.cleanup() is left, by return or by an exception: out of the
\* signal handler control reaches the finally clause of main (through
\* exit(0), or the except clause that raises again), which calls
\* manager.cleanup() once more; out of the finally clause the process ends
leave_cleanup ==
    IF mpc = "handler"
    THEN mpc' = "finally" /\ cl_i' = FirstDevice
    ELSE mpc' = "exited" /\ cl_i' = 0

\* SIGTERM or SIGINT arrives while main waits in signal.pause()
cleanup_handler ==
    /\ mpc = "pause"
    /\ mpc' = "handler"
    /\ cl_i' = FirstDevice
    /\ UNCHANGED <<flowVars, timerVars, hold_start, press_time, now, hold_calls, edges,
                   returns, current_step, ignored, moreVars, closed, led_closed, sys_waiting,
                   pc, loc,
                   dispVars, epoch, calls, countVars, pressSeen, solo>>

\* ButtonHandler.cleanup: self.button.close() returns, or raises and
\* ButtonError leaves the loop of ButtonManager.cleanup; a Button that is
\* closed has no pin, so reading self.button.pin.number raises as well
button_cleanup(b) ==
    /\ mpc \in {"handler", "finally"}
    /\ cl_i = b
    /\ \/ /\ b \notin closed
          /\ closed' = closed \cup {b}
          /\ cl_i' = NextDevice(b)
          /\ mpc' = mpc
       \/ /\ closed' = closed
          /\ leave_cleanup
    /\ UNCHANGED <<flowVars, timerVars, hold_start, press_time, now, hold_calls, edges,
                   returns, current_step, ignored, moreVars, led_closed, sys_waiting, pc, loc,
                   dispVars, epoch, calls, countVars, pressSeen, solo>>

\* DisplayBacklight.cleanup: self.led.close() returns, or raises and
\* BacklightError leaves ButtonManager.cleanup
backlight_cleanup ==
    /\ mpc \in {"handler", "finally"}
    /\ cl_i = CL_BACKLIGHT
    /\ \/ /\ led_closed' = TRUE
          /\ cl_i' = CL_PIHOLE
          /\ mpc' = mpc
       \/ /\ ~led_closed
          /\ led_closed' = led_closed
          /\ leave_cleanup
    /\ UNCHANGED <<flowVars, timerVars, hold_start, press_time, now, hold_calls, edges,
                   returns, current_step, ignored, moreVars, closed, sys_waiting, pc, loc,
                   dispVars, epoch, calls, countVars, pressSeen, solo>>

\* PiHole.cleanup: self._clear_confirmation_state(); SystemOs.cleanup only
\* logs, and ButtonManager.cleanup returns
pihole_cleanup ==
    /\ mpc \in {"handler", "finally"}
    /\ cl_i = CL_PIHOLE
    /\ clear_confirmation_state
    /\ leave_cleanup
    /\ UNCHANGED <<owner, hold_start, press_time, now, hold_calls, edges,
                   returns, current_step, ignored, moreVars, closed, led_closed, sys_waiting,
                   pc, loc,
                   dispVars, epoch, calls, countVars, pressSeen, solo>>

CleanupNext ==
    \/ \E h \in HoldTimes : handle_button2_held(h)
    \/ handle_button2_press
    \/ Steps
    \/ cleanup_handler
    \/ \E b \in Buttons : button_cleanup(b)
    \/ backlight_cleanup
    \/ pihole_cleanup

CleanupSpec == Init /\ [][CleanupNext]_vars

\* C20: once the termination signal has been handled and the process is
\* about to exit, the flow is Idle, no Timer is pending, and every button
\* and the backlight are closed, however the close calls ended.
C20_CleanupReleasesAll ==
    mpc = "exited"
    => /\ ~waiting_for_confirmation
       /\ \A T \in TimerIds : tstate[T] # "pending"
       /\ closed = Buttons
       /\ led_closed

\* C21: a cancel or a timeout has printed "Update cancelled" before it
\* switches back to PADD, and an update that failed has printed a line that
\* says so.
C21_MessageBeforeReturn ==
    /\ \A e \in Epochs : padds[e] <= msgs[e]
    /\ last_end # "untold"

\* C22: when the gravity prompt is on screen and its Timer has time left,
\* a press of button 2, the button that confirms the gravity update, enters
\* the handler that runs it.
C22_GravityConfirmRuns ==
    [][(/\ ~hold_start[2]
        /\ hold_start'[2]
        /\ Pending
        /\ remaining[confirmation_timer] > 0
        /\ Displayed = "gravity")
       => pc'[2] = "p_if"]_vars

\* ------------------------------------------------------------- startup
\* main has built its Config, DisplayManager and ButtonManager
StartInit ==
    /\ InitFlow
    /\ mpc = "start"
    /\ cl_i = 0
    /\ closed = {}
    /\ led_closed = FALSE
    /\ registered = {}
    /\ reg_failed = {}
    /\ padd = "unchecked"

\* a main that goes on to register whatever check_padd returned
after_check_ignored(r) == "register"

\* if not display.check_padd(): return (and the finally clause runs)
after_check(r) == IF r = "found" THEN "register" ELSE "finally"

\* DisplayManager.check_padd: tmux has the session (True), or it has not,
\* or tmux cannot be run (False)
check_padd ==
    /\ mpc = "start"
    /\ \E r \in {"found", "missing"} :
          /\ padd' = r
          /\ mpc' = after_check(r)
    /\ cl_i' = IF mpc' = "finally" THEN FirstDevice ELSE cl_i
    /\ UNCHANGED <<flowVars, timerVars, hold_start, press_time, now, hold_calls, edges,
                   returns, current_step, ignored, last_end, lightVars, closed, led_closed, registered,
                   reg_failed, sys_waiting, pc, loc, dispVars, epoch, calls, countVars,
                   pressSeen, solo>>

\* ButtonManager.add_button for the next entry of buttons_config: the
\* ButtonHandler is built and appended, or building it raises, add_button
\* raises ButtonError, and main leaves its loop for the finally clause
add_button(b) ==
    /\ mpc = "register"
    /\ b = Cardinality(registered) + 1
    /\ \/ /\ registered' = registered \cup {b}
          /\ mpc' = IF registered' = Buttons THEN "pause" ELSE "register"
          /\ UNCHANGED <<reg_failed, cl_i>>
       \/ /\ reg_failed' = reg_failed \cup {b}
          /\ mpc' = "finally"
          /\ cl_i' = FirstDevice
          /\ UNCHANGED registered
    /\ UNCHANGED <<flowVars, timerVars, hold_start, press_time, now, hold_calls, edges,
                   returns, current_step, ignored, last_end, lightVars, closed, led_closed, padd,
                   sys_waiting, pc, loc, dispVars, epoch, calls, countVars, pressSeen, solo>>

\* the steps of an arm and of its cancellation, by a failed prompt or by
\* the Timer
ArmSteps ==
    \/ \E t \in Buttons : held_if(t)
    \/ \E t \in Buttons : start_confirmation_timer(t)
    \/ \E t \in Buttons : show_update(t)
    \/ \E t \in Threads : cancel_update(t)
    \/ \E t \in Threads : cancel_update_clear(t)
    \/ \E t \in Threads : cancel_update_padd(t)
    \/ \E T \in TimerIds : handle_timeout(T)
    \/ Tick

StartNext ==
    \/ check_padd
    \/ \E b \in Buttons : add_button(b)
    \/ \E b \in Buttons : button_cleanup(b)
    \/ backlight_cleanup
    \/ pihole_cleanup
    \/ on_press(1)
    \/ \E h \in HoldTimes : on_release(1, h)
    \/ ArmSteps

StartSpec == StartInit /\ [][StartNext]_vars

\* C23: when check_padd has failed, no button is registered, no callback of
\* a button runs, no flow is armed and no action is started.
C23_NoPaddNoButtons ==
    padd = "missing"
    => /\ registered = {}
       /\ calls = 0
       /\ epoch = 0
       /\ ~waiting_for_confirmation
       /\ \A b \in Buttons : ~hold_start[b] /\ pressSeen[b] = "never" /\ pc[b] = "idle"
       /\ \A e \in Epochs : acts[e] = 0

\* check_padd failed and main has returned through its finally clause
C23_Witness ==
    /\ padd = "missing"
    /\ mpc = "exited"
    /\ led_closed

\* C24: when building the ButtonHandler of one button has failed, main
\* goes on: once its loop is over the other buttons are registered and the
\* process waits for signals.
C24_RegistrationFailureConfined ==
    (reg_failed # {} /\ mpc # "register")
    => /\ mpc = "pause"
       /\ registered = Buttons \ reg_failed

\* C25: a press of button 1, the brightness button, while no flow awaits
\* steps the brightness by one level, and while a flow awaits no step of
\* the program changes the level.
C25_BrightnessStep ==
    [][/\ (~hold_start[1] /\ hold_start'[1] /\ ~is_menu_active)
          => current_step' = step_brightness
       /\ is_menu_active => current_step' = current_step]_vars

\* C26: while the update that a confirm press began for an arm is running,
\* the flow is Idle unless a later arm began, no Timer of that arm is
\* pending, and no cancel prints its message or switches the view for it.
C26_IdleDuringAction ==
    [][\A t \in Buttons :
          pc[t] = "p_end"
          => /\ (epoch = loc[t].ep => ~waiting_for_confirmation)
             /\ \A T \in TimerIds : owner[T] = loc[t].ep => tstate[T] # "pending"
             /\ msgs'[loc[t].ep] = msgs[loc[t].ep]
             /\ padds'[loc[t].ep] = padds[loc[t].ep]]_vars

\* C27: the callback of the Timer of an arm that a confirm press resolved
\* cancels no later arm.
C27_StaleTimerCancelsNothing ==
    \A T \in TimerIds :
        (owner[T] # 0 /\ acts[owner[T]] >= 1) => fired[T] \in {0, owner[T]}

\* C28: step_brightness moves one level per call through the 11 levels
\* 100%, 90%, ..., 0% and wraps to 100%: the index is always in 0..10, the
\* level after n calls is the n-th of the cycle, and so every 11 calls
\* bring back the level they started from.
C28_BrightnessCycle ==
    /\ Len(brightness_levels) = LEVELS
    /\ current_step \in 0..(LEVELS - 1)
    /\ current_step = stepped % LEVELS
    /\ get_brightness_percentage = 100 - 10 * (stepped % LEVELS)

C28_Witness ==
    /\ stepped = LEVELS
    /\ current_step = 0
    /\ get_brightness_percentage = 100

\* C29: the action of an arm is not started while the handler that armed
\* it has not yet returned from showing the prompt.
C29_NoActionBeforePrompt ==
    [][\A t \in Buttons :
          (pc[t] = "p_clear" /\ pc'[t] = "p_end")
              => ~\E u \in Buttons : /\ pc[u] \in {"a_timer", "a_show"}
                                     /\ loc[u].ep = loc[t].ep]_vars

\* C30: the Timer of an arm does not reach its deadline and call
\* _handle_timeout while the handler that armed it is still showing the
\* prompt.
C30_NoTimeoutBeforePrompt ==
    [][\A T \in TimerIds :
          (tstate[T] = "pending" /\ tstate'[T] = "running")
              => ~\E u \in Buttons : /\ pc[u] = "a_show"
                                     /\ loc[u].ep = owner[T]]_vars

\* C31: when the switch back to PADD fails at the end of a cancel, the arm
\* that was cancelled has been reset: no Timer of it is pending, and unless
\* a later arm has begun the flow is not waiting and holds no Timer.
C31_ResetBeforeFailedSwitch ==
    [][\A t \in Threads :
          (pc[t] = "c_padd" /\ pc'[t] # "c_padd" /\ view' # "padd")
              => /\ \A T \in TimerIds : owner'[T] = loc[t].ep => tstate'[T] # "pending"
                 /\ epoch' = loc[t].ep
                        => ~waiting_for_confirmation' /\ confirmation_timer' = 0]_vars

\* C32: when the process ends on a termination signal ButtonManager.cleanup
\* runs once: the finally clause of main does not run it after the signal
\* handler has, and no cleanup reaches a button or a backlight that is
\* already closed.
C32_CleanupOnce ==
    /\ mpc # "finally"
    /\ (mpc = "handler" /\ cl_i \in Buttons) => cl_i \notin closed
    /\ (mpc = "handler" /\ cl_i = CL_BACKLIGHT) => ~led_closed

=============================================================================
